---- MODULE Spec2Model ----
(***************************************************************************)
(* A model of the semantic FAQ retrieval engine, utils/faq_processor.py:   *)
(* the embedding cache and its durable file, the rate-limited embedding    *)
(* client (embed_text, embed_batch), build_index and find_similar_faqs.    *)
(*                                                                         *)
(* Texts are sequences of tokens: a token is a word (a maximal run of      *)
(* letters), a single digit, a blank or a question mark.  Embedding        *)
(* vectors are pairs of integers and distances are squared L2 distances,   *)
(* as faiss.IndexFlatL2 reports them.  Time is counted in ticks of 50 ms.  *)
(***************************************************************************)
EXTENDS Integers, Sequences, FiniteSets, TLC

VARIABLES
    cache_dir,        \* whether cache_path has a directory part (os.path.dirname)
    embedding_cache,  \* self.embedding_cache: cache key -> vector
    files,            \* the file system: path -> [exists, data]
    index,            \* self.index: [built, vecs]
    faq_data,         \* self.faq_data: [set, rows]
    time_since_last,  \* time.time() - self.last_api_call, capped at RateLimitDelay
    time_since_req,   \* time since the last external request was issued, capped
    pc,               \* position of the process inside _save_cache (stepwise flush)
    flush_pre,        \* durable file when the running stepwise flush began
    last,             \* what the last completed operation was given and did
    ncalls,           \* how many operations have been called so far
    sessions          \* the processors of concurrent UI sessions on cache_path

vars == <<cache_dir, embedding_cache, files, index, faq_data,
          time_since_last, time_since_req, pc, flush_pre, last, ncalls,
          sessions>>

(***************************************************************************)
(* Bounds of the model and constants of the program.                       *)
(***************************************************************************)
MaxFaqs == 2
MaxK == 2
MaxBatch == 2
MaxCalls == 2

\* self.rate_limit_delay = 0.2 s and the single path's 0.05 s, in ticks of 50 ms
RateLimitDelay == 4
SingleDelay == 1
\* distance faiss reports for a missing neighbour (label -1): the largest float
FltMax == 1000

(***************************************************************************)
(* Generic helpers.                                                        *)
(***************************************************************************)
Min(a, b) == IF a < b THEN a ELSE b

SeqsUpTo(S, n) == UNION {[1..m -> S] : m \in 0..n}

RECURSIVE SeqSum(_)
SeqSum(s) == IF s = <<>> THEN 0 ELSE Head(s) + SeqSum(Tail(s))

(***************************************************************************)
(* Text: str.lower, str.strip, truthiness, isalpha.                        *)
(***************************************************************************)
Blank == " "
QMark == "?"

LowerTok(c) == CASE c = "W" -> "w" [] c = "V" -> "v" [] OTHER -> c

Lower(text) == [i \in 1..Len(text) |-> LowerTok(text[i])]

RECURSIVE LStrip(_)
LStrip(text) ==
    IF text # <<>> /\ Head(text) = Blank THEN LStrip(Tail(text)) ELSE text

RECURSIVE RStrip(_)
RStrip(text) ==
    IF text # <<>> /\ text[Len(text)] = Blank
    THEN RStrip(SubSeq(text, 1, Len(text) - 1))
    ELSE text

Strip(text) == RStrip(LStrip(text))

IsAlphaTok(c) == c \in {"w", "v", "W", "V", "x", "y", "and", "also", "nan"}

\* an item that is not a str (None, a number) mixed into a batch
NonStr == <<"<non-str>">>

\* `not text or not isinstance(text, str)`
Invalid(text) == text = <<>> \/ text = NonStr

(***************************************************************************)
(* The cache key (an MD5 digest of the exact text) and the provider.       *)
(***************************************************************************)
TokCode(c) ==
    CASE c = " " -> 1 [] c = "?" -> 2 [] c = "1" -> 3 [] c = "w" -> 4
      [] c = "v" -> 5 [] c = "x" -> 6 [] c = "y" -> 7 [] c = "nan" -> 8
      [] c = "W" -> 9 [] c = "V" -> 10 [] c = "and" -> 11 [] c = "also" -> 12
      [] OTHER -> 0

\* _get_cache_key: a digest of the tokens in order; distinct texts of the
\* model get distinct keys (collisions are accepted as negligible)
RECURSIVE Digest(_, _)
Digest(h, text) ==
    IF text = <<>> THEN h ELSE Digest(h * 13 + TokCode(Head(text)), Tail(text))

_get_cache_key(text) == Digest(0, text)

\* the embedding provider: one fixed vector per text (text-embedding-3-small
\* is taken to be deterministic); a word's weight places the text
TokWeight(c) ==
    CASE c = "w" -> <<2, 0>> [] c = "v" -> <<0, 2>> [] c = "x" -> <<1, 0>>
      [] c = "y" -> <<0, 1>> [] c = "nan" -> <<1, 1>> [] OTHER -> <<0, 0>>

Provider(text) ==
    << SeqSum([i \in 1..Len(text) |-> TokWeight(text[i])[1]]),
       SeqSum([i \in 1..Len(text) |-> TokWeight(text[i])[2]]) >>

None == <<>>

(***************************************************************************)
(* The durable cache file: json.dump and json.load.                        *)
(***************************************************************************)
CachePath == "faq_embeddings_cache.json"

TempPathShared == CachePath

\* temp_file = self.cache_file + '.tmp'
TempPath == "faq_embeddings_cache.json.tmp"

Absent == [exists |-> FALSE, data |-> <<>>]

Brace(b) == [t |-> b, k |-> 0, v |-> <<>>]

Entry(k, v) == [t |-> "entry", k |-> k, v |-> v]

RECURSIVE DumpEntries(_, _)
DumpEntries(cache, keys) ==
    IF keys = {} THEN <<>>
    ELSE LET k == CHOOSE x \in keys : \A y \in keys : x <= y
         IN  <<Entry(k, cache[k])>> \o DumpEntries(cache, keys \ {k})

\* json.dump(self.embedding_cache, f): the text written, token by token
JsonDump(cache) ==
    <<Brace("{")>> \o DumpEntries(cache, DOMAIN cache) \o <<Brace("}")>>

\* whether json.load accepts the text
Parsable(data) ==
    /\ Len(data) >= 2
    /\ data[1] = Brace("{")
    /\ data[Len(data)] = Brace("}")
    /\ \A i \in 2..(Len(data) - 1) : data[i].t = "entry"

\* json.load(f) of a parsable text
JsonLoad(data) ==
    LET keys == {data[i].k : i \in 2..(Len(data) - 1)}
    IN  [k \in keys |->
            LET i == CHOOSE j \in 2..(Len(data) - 1) :
                        data[j].k = k /\ \A l \in (j + 1)..(Len(data) - 1) : data[l].k # k
            IN  data[i].v]

EmptyCache == [k \in {} |-> None]

\* _load_cache: {} when the file is missing or cannot be parsed
_load_cache(fs) ==
    IF fs[CachePath].exists /\ Parsable(fs[CachePath].data)
    THEN JsonLoad(fs[CachePath].data)
    ELSE EmptyCache

\* open(temp_file, 'w'): the file exists and is empty
OpenTemp(fs) == [fs EXCEPT ![TempPath] = [exists |-> TRUE, data |-> <<>>]]

\* what f holds once n tokens of the dump have reached it
WriteTemp(fs, cache, n) ==
    [fs EXCEPT ![TempPath] =
        [exists |-> TRUE, data |-> SubSeq(JsonDump(cache), 1, n)]]

\* os.replace(temp_file, self.cache_file)
Replace(fs) ==
    IF TempPath = CachePath THEN fs
    ELSE [fs EXCEPT ![CachePath] = fs[TempPath], ![TempPath] = Absent]

\* _save_cache run to its end: raises when os.makedirs('') or open fails,
\* and then leaves the files alone
_save_cache(st, io_ok) ==
    IF cache_dir /\ io_ok
    THEN [st |-> [st EXCEPT !.files =
                    Replace(WriteTemp(OpenTemp(st.files), st.cache,
                                      Len(JsonDump(st.cache))))],
          raised |-> FALSE]
    ELSE [st |-> [st EXCEPT !.save_failed = TRUE], raised |-> TRUE]

(***************************************************************************)
(* The embedding client.  A handler's state st holds the cache, the files, *)
(* the two clocks and the requests the running operation has issued.       *)
(***************************************************************************)
Outcomes == {"ok", "save_fail", "error", "timeout"}

RequestOk(out) == out \in {"ok", "save_fail"}

\* time.sleep of the remainder when less than delay has passed
RateLimit(st, delay) ==
    IF st.since < delay
    THEN [st EXCEPT !.since = delay,
                    !.req = Min(st.req + (delay - st.since), RateLimitDelay)]
    ELSE st

\* self.client.embeddings.create: the request leaves now; a timeout is
\* raised after self.timeout = 10 s, any other error at once
Request(st, path, out) ==
    LET issued == [st EXCEPT !.reqs = Append(st.reqs,
                        [path |-> path, gap |-> st.req, out |-> out]),
                             !.req = 0]
    IN  IF out = "timeout"
        THEN [issued EXCEPT !.since = RateLimitDelay, !.req = RateLimitDelay]
        ELSE issued

\* self.last_api_call = time.time()
StampLastCall(st) == [st EXCEPT !.since = 0]

Put(cache, key, vec) ==
    [k \in (DOMAIN cache) \cup {key} |-> IF k = key THEN vec ELSE cache[k]]

embed_text(st, text, out) ==
    IF Invalid(text) THEN [st |-> st, ret |-> None]
    ELSE LET cache_key == _get_cache_key(text) IN
    IF cache_key \in DOMAIN st.cache THEN [st |-> st, ret |-> st.cache[cache_key]]
    ELSE LET sent == Request(RateLimit(st, SingleDelay), "single", out) IN
    IF ~RequestOk(out) THEN [st |-> sent, ret |-> None]
    ELSE LET embedding == Provider(text)
             stored == [StampLastCall(sent) EXCEPT
                           !.cache = Put(sent.cache, cache_key, embedding)]
             saved == _save_cache(stored, out = "ok")
         IN  IF saved.raised THEN [st |-> saved.st, ret |-> None]
             ELSE [st |-> saved.st, ret |-> embedding]

\* the texts of a batch that go to the provider
RECURSIVE ToProcess(_, _)
ToProcess(cache, texts) ==
    IF texts = <<>> THEN <<>>
    ELSE LET text == Head(texts)
             rest == ToProcess(cache, Tail(texts))
         IN  IF Invalid(text) \/ _get_cache_key(text) \in DOMAIN cache
             THEN rest ELSE <<text>> \o rest

RECURSIVE CacheKeysAll(_, _)
CacheKeysAll(cache, texts) ==
    IF texts = <<>> THEN <<>>
    ELSE LET text == Head(texts)
             rest == CacheKeysAll(cache, Tail(texts))
         IN  IF Invalid(text) THEN rest ELSE <<_get_cache_key(text)>> \o rest

\* cache_keys: the key of each text of to_process, in the same order
CacheKeys(cache, texts) ==
    LET tp == ToProcess(cache, texts)
    IN  [i \in 1..Len(tp) |-> _get_cache_key(tp[i])]

\* for i, embedding in enumerate(response.data): cache[cache_keys[i]] = ...
RECURSIVE StoreResults(_, _, _, _)
StoreResults(cache, cache_keys, data, i) ==
    IF i > Len(data) THEN cache
    ELSE StoreResults(Put(cache, cache_keys[i], data[i]), cache_keys, data, i + 1)

embed_batch(st, texts, out) ==
    LET to_process == ToProcess(st.cache, texts)
        cache_keys == CacheKeys(st.cache, texts)
    IN  IF to_process = <<>> THEN st
        ELSE LET sent == Request(RateLimit(st, RateLimitDelay), "batch", out) IN
        IF ~RequestOk(out) THEN sent
        ELSE LET data == [i \in 1..Len(to_process) |-> Provider(to_process[i])]
                 stored == [StampLastCall(sent) EXCEPT
                               !.cache = StoreResults(sent.cache, cache_keys, data, 1)]
             IN  _save_cache(stored, out = "ok").st

(***************************************************************************)
(* The FAQ corpus (a DataFrame of question / answer rows) and the index.   *)
(***************************************************************************)
Row(q, a, na) == [question |-> q, answer |-> a, na |-> na]

\* str(answer), as the f-string and str() render it: a missing value is "nan"
StrOf(row) == IF row.na THEN <<"nan">> ELSE row.answer

\* combined_text = f"{row['question']} {row['answer']}"
CombinedText(row) == row.question \o <<Blank>> \o StrOf(row)

NoAnswerEmptyOnly(row) == row.answer = <<>> /\ ~row.na

\* `not faq['answer'] or pd.isna(faq['answer'])`
NoAnswer(row) == row.answer = <<>> \/ row.na

NoDataFrame == [set |-> FALSE, rows |-> <<>>]

DataFrame(rows) == [set |-> TRUE, rows |-> rows]

NoIndex == [built |-> FALSE, vecs |-> <<>>]

\* the chunk texts_to_process[i:i+batch_size], i counted from 0
Chunk(texts, i, batch_size) ==
    SubSeq(texts, i + 1, Min(i + batch_size, Len(texts)))

\* the first pass: the vectors already cached, in corpus order
RECURSIVE CachedEmbeddings(_, _)
CachedEmbeddings(cache, rows) ==
    IF rows = <<>> THEN <<>>
    ELSE LET cache_key == _get_cache_key(CombinedText(Head(rows)))
             rest == CachedEmbeddings(cache, Tail(rows))
         IN  IF cache_key \in DOMAIN cache THEN <<cache[cache_key]>> \o rest ELSE rest

\* the first pass: texts_to_process, in corpus order
RECURSIVE TextsToProcess(_, _)
TextsToProcess(cache, rows) ==
    IF rows = <<>> THEN <<>>
    ELSE LET text == CombinedText(Head(rows))
             rest == TextsToProcess(cache, Tail(rows))
         IN  IF _get_cache_key(text) \in DOMAIN cache THEN rest ELSE <<text>> \o rest

\* "Add newly processed embeddings": the vectors of a chunk now in the cache
RECURSIVE NewEmbeddings(_, _)
NewEmbeddings(cache, batch) ==
    IF batch = <<>> THEN <<>>
    ELSE LET cache_key == _get_cache_key(Head(batch))
             rest == NewEmbeddings(cache, Tail(batch))
         IN  IF cache_key \in DOMAIN cache THEN <<cache[cache_key]>> \o rest ELSE rest

\* what happens to the next request of the running operation
NextOut(st, outs) == outs[Len(st.reqs) + 1]

RECURSIVE ProcessBatchesAborting(_, _, _, _, _, _)
ProcessBatchesAborting(st, embeddings, texts, i, batch_size, outs) ==
    IF i >= Len(texts) THEN [st |-> st, embeddings |-> embeddings]
    ELSE LET batch == Chunk(texts, i, batch_size)
             after == embed_batch(st, batch, NextOut(st, outs))
             sofar == embeddings \o NewEmbeddings(after.cache, batch)
         IN  IF Len(after.reqs) > Len(st.reqs)
                  /\ ~RequestOk(after.reqs[Len(after.reqs)].out)
             THEN [st |-> after, embeddings |-> sofar]
             ELSE ProcessBatchesAborting(after, sofar, texts, i + batch_size,
                                         batch_size, outs)

\* the loop over the chunks
RECURSIVE ProcessBatches(_, _, _, _, _, _)
ProcessBatches(st, embeddings, texts, i, batch_size, outs) ==
    IF i >= Len(texts) THEN [st |-> st, embeddings |-> embeddings]
    ELSE LET batch == Chunk(texts, i, batch_size)
             after == embed_batch(st, batch, NextOut(st, outs))
         IN  ProcessBatches(after, embeddings \o NewEmbeddings(after.cache, batch),
                            texts, i + batch_size, batch_size, outs)

\* `faqs_df is None or len(faqs_df) == 0`
NoFaqs(faqs_df) == ~faqs_df.set \/ Len(faqs_df.rows) = 0

NeverEmpty(embeddings) == FALSE

\* `not embeddings`
NoEmbeddings(embeddings) == embeddings = <<>>

build_index(st, faqs_df, batch_size, outs) ==
    IF NoFaqs(faqs_df)
    THEN [st |-> st, faq_data |-> faq_data, index |-> index, raised |-> TRUE]
    ELSE LET done == ProcessBatches(st, CachedEmbeddings(st.cache, faqs_df.rows),
                                    TextsToProcess(st.cache, faqs_df.rows),
                                    0, batch_size, outs)
         IN  IF NoEmbeddings(done.embeddings)
             THEN [st |-> done.st, faq_data |-> faqs_df, index |-> index,
                   raised |-> TRUE]
             ELSE [st |-> done.st, faq_data |-> faqs_df,
                   index |-> [built |-> TRUE, vecs |-> done.embeddings],
                   raised |-> FALSE]

(***************************************************************************)
(* faiss.IndexFlatL2.search: the k nearest stored vectors by squared L2    *)
(* distance, nearest first (the lower position first among equals); when   *)
(* fewer than k are stored the rest is position -1 at distance FltMax.     *)
(***************************************************************************)
L2(a, b) == (a[1] - b[1]) * (a[1] - b[1]) + (a[2] - b[2]) * (a[2] - b[2])

Nearer(vecs, q, i, j) ==
    \/ L2(vecs[i], q) < L2(vecs[j], q)
    \/ L2(vecs[i], q) = L2(vecs[j], q) /\ i <= j

RECURSIVE Nearest(_, _, _, _)
Nearest(vecs, q, left, k) ==
    IF k = 0 THEN <<>>
    ELSE IF left = {} THEN <<[idx |-> -1, distance |-> FltMax]>>
                           \o Nearest(vecs, q, left, k - 1)
    ELSE LET i == CHOOSE x \in left : \A y \in left : Nearer(vecs, q, x, y)
         IN  <<[idx |-> i - 1, distance |-> L2(vecs[i], q)]>>
             \o Nearest(vecs, q, left \ {i}, k - 1)

Search(vecs, q, k) == Nearest(vecs, q, 1..Len(vecs), k)

(***************************************************************************)
(* _split_questions: re.split(r'\?|\band\b|\balso\b', text).               *)
(***************************************************************************)
IsSeparator(c) == c \in {QMark, "and", "also"}

\* re.split: the parts between the separators, the empty ones included
RECURSIVE ReSplit(_, _)
ReSplit(text, part) ==
    IF text = <<>> THEN <<part>>
    ELSE IF IsSeparator(Head(text)) THEN <<part>> \o ReSplit(Tail(text), <<>>)
    ELSE ReSplit(Tail(text), Append(part, Head(text)))

HasAlpha(part) == \E i \in 1..Len(part) : IsAlphaTok(part[i])

RECURSIVE Questions(_)
Questions(parts) ==
    IF parts = <<>> THEN <<>>
    ELSE LET part == Strip(Head(parts))
             rest == Questions(Tail(parts))
         IN  IF part # <<>> /\ HasAlpha(part)
             THEN <<(IF part[Len(part)] # QMark THEN Append(part, QMark) ELSE part)>>
                  \o rest
             ELSE rest

_split_questions(text) ==
    LET questions == Questions(ReSplit(text, <<>>))
    IN  IF questions # <<>> THEN questions ELSE <<text>>

(***************************************************************************)
(* find_similar_faqs.                                                      *)
(***************************************************************************)
\* self.faq_data.iloc[idx]: position idx counted from 0, -1 is the last row
ILoc(rows, idx) == IF idx < 0 THEN Len(rows) + idx + 1 ELSE idx + 1

\* the loop over indices[0]; row is the position read, kept for the record
RECURSIVE Matches(_, _, _, _, _)
Matches(found, i, q, rows, threshold) ==
    IF i > Len(found) THEN <<>>
    ELSE LET idx == found[i].idx
             rest == Matches(found, i + 1, q, rows, threshold)
         IN  IF idx >= Len(rows) THEN rest
             ELSE LET faq == rows[ILoc(rows, idx)] IN
             IF NoAnswer(faq) THEN rest
             ELSE IF found[i].distance <= threshold
             THEN <<[question |-> q, matched_faq |-> faq.question,
                     answer |-> Strip(StrOf(faq)),
                     distance |-> found[i].distance,
                     row |-> ILoc(rows, idx)]>> \o rest
             ELSE rest

Unsorted(results) == results

\* sorted(results, key=lambda x: x['distance']): stable
RECURSIVE InsertByDistance(_, _)
InsertByDistance(sorted, r) ==
    IF sorted = <<>> THEN <<r>>
    ELSE IF r.distance < Head(sorted).distance THEN <<r>> \o sorted
    ELSE <<Head(sorted)>> \o InsertByDistance(Tail(sorted), r)

RECURSIVE SortedByDistance(_)
SortedByDistance(results) ==
    IF results = <<>> THEN <<>>
    ELSE InsertByDistance(SortedByDistance(SubSeq(results, 1, Len(results) - 1)),
                          results[Len(results)])

\* "Deduplicate while keeping best matches"
RECURSIVE Deduplicate(_, _)
Deduplicate(sorted, seen_questions) ==
    IF sorted = <<>> THEN <<>>
    ELSE LET r == Head(sorted) IN
         IF r.question \notin seen_questions
         THEN <<r>> \o Deduplicate(Tail(sorted), seen_questions \cup {r.question})
         ELSE Deduplicate(Tail(sorted), seen_questions)

NeverFailed(query_embedding) == FALSE

\* `query_embedding is None`
EmbeddingFailed(query_embedding) == query_embedding = None

\* the loop over the sub-questions; np.array([None]).astype('float32') and
\* self.index.search on no index raise
RECURSIVE FindLoop(_, _, _, _, _, _, _)
FindLoop(st, questions, j, k, threshold, outs, results) ==
    IF j > Len(questions) THEN [st |-> st, results |-> results, raised |-> FALSE]
    ELSE LET q == questions[j]
             e == embed_text(st, Strip(Lower(q)), NextOut(st, outs))
         IN  IF EmbeddingFailed(e.ret)
             THEN FindLoop(e.st, questions, j + 1, k, threshold, outs, results)
             ELSE IF e.ret = None \/ ~index.built
             THEN [st |-> e.st, results |-> results, raised |-> TRUE]
             ELSE FindLoop(e.st, questions, j + 1, k, threshold, outs,
                           results \o Matches(Search(index.vecs, e.ret, k), 1, q,
                                              faq_data.rows, threshold))

find_similar_faqs(st, query_text, k, threshold, outs) ==
    LET loop == FindLoop(st, _split_questions(query_text), 1, k, threshold, outs, <<>>)
    IN  [st |-> loop.st, results |-> loop.results, raised |-> loop.raised,
         ret |-> IF loop.raised THEN <<>>
                 ELSE Deduplicate(SortedByDistance(loop.results), {})]

(***************************************************************************)
(* The inputs the operations are given.                                    *)
(***************************************************************************)
FaqRows ==
    { Row(<<"w">>, <<"x">>, FALSE),      \* an answered question
      Row(<<"v">>, <<"y">>, FALSE),      \* another
      Row(<<"w">>, <<>>, FALSE),         \* an empty answer
      Row(<<"v">>, <<>>, TRUE),          \* a missing answer (NaN)
      Row(<<"v">>, <<Blank>>, FALSE) }   \* an answer of blanks only

Corpora == {NoDataFrame} \cup {DataFrame(rows) : rows \in SeqsUpTo(FaqRows, MaxFaqs)}

Queries ==
    { <<>>,                                   \* ""
      <<Blank>>,                              \* " "
      <<"1">>,                                \* no letter: the text itself
      <<"w">>,                                \* "w"
      <<"w", QMark, "w", QMark>>,             \* "w?w?": the same sub-question twice
      <<"w", Blank, "and", Blank, "v">>,      \* "w and v"
      <<"W", QMark, Blank, "also", Blank, "w">> }  \* "W? also w"

Thresholds == {1, 9, FltMax}

EmbedTexts ==
    { <<>>, NonStr,                  \* "" and an item that is no str
      <<"w", QMark>>, <<"v", QMark>>,
      <<"w", Blank, "x">> }

(***************************************************************************)
(* The state machine: one action per operation of FAQProcessor.            *)
(***************************************************************************)
NoOp ==
    [op |-> "init", text |-> <<>>, batch |-> <<>>, k |-> 0, threshold |-> 0,
     corpus |-> NoDataFrame, batch_size |-> 0, hit |-> FALSE, ncached |-> 0,
     reqs |-> <<>>,
     save_failed |-> FALSE, raised |-> FALSE, ret |-> None,
     results |-> <<>>, matches |-> <<>>]

\* the UI sessions that hold a processor of their own on the same cache path
Sessions == {1, 2}

\* a session's processor before it has flushed anything: its cache as
\* _load_cache found it, no file open
NoSession == [pc |-> "idle", cache |-> EmptyCache, f |-> "closed", pos |-> 0]

\* the state a handler starts from
Entering ==
    [cache |-> embedding_cache, files |-> files, since |-> time_since_last,
     req |-> time_since_req, reqs |-> <<>>, save_failed |-> FALSE]

\* the state a handler leaves behind
Leave(st) ==
    /\ embedding_cache' = st.cache
    /\ files' = st.files
    /\ time_since_last' = st.since
    /\ time_since_req' = st.req

\* __init__: no index, no corpus, the cache as _load_cache finds it and
\* last_api_call = 0, long ago
Constructed ==
    /\ files = [p \in {CachePath, TempPath} |-> Absent]
    /\ embedding_cache = _load_cache(files)
    /\ index = NoIndex
    /\ faq_data = NoDataFrame
    /\ time_since_last = RateLimitDelay
    /\ time_since_req = RateLimitDelay
    /\ pc = "idle"
    /\ flush_pre = Absent
    /\ last = NoOp
    /\ ncalls = 0
    /\ sessions = [s \in Sessions |-> NoSession]

\* cache_path names a file inside a directory, as app.py passes it
Init == cache_dir = TRUE /\ Constructed

\* cache_path is any path: the default "faq_embeddings_cache.json" has no
\* directory part
InitClient == cache_dir \in BOOLEAN /\ Constructed

\* the most requests a build_index call can issue from here: one per chunk
MaxRequestsOfBuild(faqs_df, batch_size) ==
    (Len(TextsToProcess(embedding_cache, faqs_df.rows)) + batch_size - 1)
        \div batch_size

\* the most requests a find_similar_faqs call can issue from here: one per
\* sub-question whose text is valid and not cached
MaxRequestsOfFind(query_text) ==
    LET questions == _split_questions(query_text)
    IN  Cardinality({j \in 1..Len(questions) :
            /\ ~Invalid(Strip(Lower(questions[j])))
            /\ _get_cache_key(Strip(Lower(questions[j]))) \notin DOMAIN embedding_cache})

\* whether some sub-question of the query is in the cache already
AnyCached(query_text) ==
    LET questions == _split_questions(query_text)
    IN  \E j \in 1..Len(questions) :
            _get_cache_key(Strip(Lower(questions[j]))) \in DOMAIN embedding_cache

EmbedText(texts, outcomes) ==
    /\ pc = "idle"
    /\ ncalls < MaxCalls
    /\ \E text \in texts, out \in outcomes :
      \E r \in {embed_text(Entering, text, out)} :
        /\ ncalls' = ncalls + 1
        /\ Leave(r.st)
        /\ last' = [NoOp EXCEPT !.op = "embed_text", !.text = text,
                       !.hit = ~Invalid(text)
                               /\ _get_cache_key(text) \in DOMAIN embedding_cache,
                       !.reqs = r.st.reqs, !.save_failed = r.st.save_failed,
                       !.ret = r.ret]
        /\ UNCHANGED <<cache_dir, index, faq_data, pc, flush_pre, sessions>>

EmbedBatch(texts, outcomes) ==
    /\ pc = "idle"
    /\ ncalls < MaxCalls
    /\ \E batch \in SeqsUpTo(texts, MaxBatch), out \in outcomes :
      \E st \in {embed_batch(Entering, batch, out)} :
        /\ ncalls' = ncalls + 1
        /\ Leave(st)
        /\ last' = [NoOp EXCEPT !.op = "embed_batch", !.batch = batch,
                       !.hit = \E i \in 1..Len(batch) :
                                  /\ ~Invalid(batch[i])
                                  /\ _get_cache_key(batch[i]) \in DOMAIN embedding_cache,
                       !.reqs = st.reqs,
                       !.save_failed = st.save_failed]
        /\ UNCHANGED <<cache_dir, index, faq_data, pc, flush_pre, sessions>>

BuildIndex(corpora, outcomes) ==
    /\ pc = "idle"
    /\ ncalls < MaxCalls
    /\ \E faqs_df \in corpora, batch_size \in 1..MaxBatch :
      \E outs \in [1..MaxRequestsOfBuild(faqs_df, batch_size) -> outcomes] :
      \E r \in {build_index(Entering, faqs_df, batch_size, outs)} :
        /\ ncalls' = ncalls + 1
        /\ Leave(r.st)
        /\ faq_data' = r.faq_data
        /\ index' = r.index
        /\ last' = [NoOp EXCEPT !.op = "build_index", !.corpus = faqs_df,
                       !.batch_size = batch_size,
                       !.ncached = Len(CachedEmbeddings(embedding_cache, faqs_df.rows)),
                       !.reqs = r.st.reqs, !.save_failed = r.st.save_failed,
                       !.raised = r.raised]
        /\ UNCHANGED <<cache_dir, pc, flush_pre, sessions>>

FindSimilarFaqs(queries, thresholds, outcomes) ==
    /\ pc = "idle"
    /\ ncalls < MaxCalls
    /\ \E query_text \in queries, k \in 1..MaxK, threshold \in thresholds :
      \E outs \in [1..MaxRequestsOfFind(query_text) -> outcomes] :
      \E r \in {find_similar_faqs(Entering, query_text, k, threshold, outs)} :
        /\ ncalls' = ncalls + 1
        /\ Leave(r.st)
        /\ last' = [NoOp EXCEPT !.op = "find_similar_faqs", !.text = query_text,
                       !.k = k, !.threshold = threshold,
                       !.hit = AnyCached(query_text),
                       !.reqs = r.st.reqs, !.save_failed = r.st.save_failed,
                       !.raised = r.raised, !.results = r.results,
                       !.matches = r.ret]
        /\ UNCHANGED <<cache_dir, index, faq_data, pc, flush_pre, sessions>>

\* 50 ms pass between two operations
Tick ==
    /\ pc = "idle"
    /\ time_since_last < RateLimitDelay \/ time_since_req < RateLimitDelay
    /\ time_since_last' = Min(time_since_last + 1, RateLimitDelay)
    /\ time_since_req' = Min(time_since_req + 1, RateLimitDelay)
    /\ UNCHANGED <<cache_dir, embedding_cache, files, index, faq_data, pc,
                   flush_pre, last, ncalls, sessions>>

NoTimeout == Outcomes \ {"timeout"}

\* the retrieval engine: build_index and find_similar_faqs, which call the
\* embedding client
Next ==
    \/ BuildIndex(Corpora, NoTimeout)
    \/ FindSimilarFaqs(Queries, Thresholds, NoTimeout)

Spec == Init /\ [][Next]_vars

\* the embedding client alone, with time passing between the calls
NextClient ==
    \/ EmbedText(EmbedTexts, Outcomes)
    \/ EmbedBatch(EmbedTexts, Outcomes)
    \/ Tick

SpecClient == InitClient /\ [][NextClient]_vars

(***************************************************************************)
(* _save_cache step by step, with the process interrupted at any step and  *)
(* a new process constructed afterwards.                                   *)
(***************************************************************************)
FlushTexts == {<<"w", QMark>>, <<"v", QMark>>, <<"w", Blank, "x">>}

InFlush == pc \in {"makedirs", "open", "write", "replace"}

Untouched == <<cache_dir, index, faq_data, time_since_last, time_since_req,
               last, ncalls, sessions>>

InitFlush == cache_dir = TRUE /\ Constructed

\* self.embedding_cache[cache_key] = embedding; self._save_cache() is entered
StoreEmbedding ==
    /\ pc = "idle"
    /\ \E text \in FlushTexts :
        /\ _get_cache_key(text) \notin DOMAIN embedding_cache
        /\ embedding_cache' = Put(embedding_cache, _get_cache_key(text), Provider(text))
    /\ pc' = "makedirs"
    /\ flush_pre' = files[CachePath]
    /\ UNCHANGED <<files, Untouched>>

\* os.makedirs(os.path.dirname(self.cache_file), exist_ok=True)
FlushMakedirs ==
    /\ pc = "makedirs"
    /\ pc' = "open"
    /\ UNCHANGED <<embedding_cache, files, flush_pre, Untouched>>

\* with open(temp_file, 'w') as f
FlushOpen ==
    /\ pc = "open"
    /\ files' = OpenTemp(files)
    /\ pc' = "write"
    /\ UNCHANGED <<embedding_cache, flush_pre, Untouched>>

\* json.dump writes the text piece by piece
FlushWrite ==
    /\ pc = "write"
    /\ Len(files[TempPath].data) < Len(JsonDump(embedding_cache))
    /\ files' = WriteTemp(files, embedding_cache, Len(files[TempPath].data) + 1)
    /\ UNCHANGED <<embedding_cache, pc, flush_pre, Untouched>>

\* the with block is left: the temp file is complete and closed
FlushClose ==
    /\ pc = "write"
    /\ Len(files[TempPath].data) >= Len(JsonDump(embedding_cache))
    /\ pc' = "replace"
    /\ UNCHANGED <<embedding_cache, files, flush_pre, Untouched>>

\* os.replace(temp_file, self.cache_file)
FlushReplace ==
    /\ pc = "replace"
    /\ files' = Replace(files)
    /\ pc' = "idle"
    /\ UNCHANGED <<embedding_cache, flush_pre, Untouched>>

\* the step at hand raises (an I/O error): _save_cache re-raises and is left
FlushRaise ==
    /\ InFlush
    /\ pc' = "idle"
    /\ UNCHANGED <<embedding_cache, files, flush_pre, Untouched>>

\* the process is interrupted inside the flush
Interrupt ==
    /\ InFlush
    /\ pc' = "killed"
    /\ UNCHANGED <<embedding_cache, files, flush_pre, Untouched>>

\* a new process: __init__ runs _load_cache
Restart ==
    /\ pc = "killed"
    /\ embedding_cache' = _load_cache(files)
    /\ pc' = "idle"
    /\ UNCHANGED <<files, flush_pre, Untouched>>

NextFlush ==
    \/ StoreEmbedding
    \/ FlushMakedirs
    \/ FlushOpen
    \/ FlushWrite
    \/ FlushClose
    \/ FlushReplace
    \/ FlushRaise
    \/ Interrupt
    \/ Restart

SpecFlush == InitFlush /\ [][NextFlush]_vars

(***************************************************************************)
(* Two sessions, each with its own FAQProcessor on the same cache path,    *)
(* flushing step by step.  Nothing in _save_cache takes a lock, so the     *)
(* steps of the two interleave freely.  A session's open file f follows    *)
(* the file it was opened on: once another session's os.replace has moved  *)
(* that file to cache_path, f writes into the durable file.                *)
(***************************************************************************)
SessionTexts == {<<"w", QMark>>, <<"v", QMark>>}

\* what a write leaves between the old end of a file and a later offset
Hole == Brace("nul")

\* f.write at offset pos of the file named path
WriteAt(fs, path, pos, tok) ==
    LET data == fs[path].data
        n == IF Len(data) > pos + 1 THEN Len(data) ELSE pos + 1
    IN  [fs EXCEPT ![path] =
            [exists |-> TRUE,
             data |-> [i \in 1..n |-> IF i = pos + 1 THEN tok
                                      ELSE IF i <= Len(data) THEN data[i]
                                      ELSE Hole]]]

\* where the open files point once os.replace has moved the temp file
Moved(ss) ==
    [s \in Sessions |->
        [ss[s] EXCEPT !.f = IF @ = TempPath THEN CachePath
                            ELSE IF @ = CachePath THEN "unlinked"
                            ELSE @]]

OneProcessor == <<cache_dir, embedding_cache, index, faq_data, time_since_last,
                  time_since_req, pc, flush_pre, last, ncalls>>

InitSessions == cache_dir = TRUE /\ Constructed

\* self.embedding_cache[cache_key] = embedding; _save_cache is entered and
\* os.makedirs finds the directory
SessionStore(s) ==
    /\ sessions[s].pc = "idle"
    /\ \E text \in SessionTexts :
        /\ _get_cache_key(text) \notin DOMAIN sessions[s].cache
        /\ sessions' = [sessions EXCEPT
                           ![s].cache = Put(@, _get_cache_key(text), Provider(text)),
                           ![s].pc = "open"]
    /\ UNCHANGED <<files, OneProcessor>>

\* with open(temp_file, 'w') as f: the temp file is created or truncated
SessionOpen(s) ==
    /\ sessions[s].pc = "open"
    /\ files' = OpenTemp(files)
    /\ sessions' = [sessions EXCEPT ![s].pc = "write", ![s].f = TempPath,
                                    ![s].pos = 0]
    /\ UNCHANGED OneProcessor

\* json.dump writes the next piece of the text at f's own offset
SessionWrite(s) ==
    /\ sessions[s].pc = "write"
    /\ sessions[s].pos < Len(JsonDump(sessions[s].cache))
    /\ files' = IF sessions[s].f = "unlinked" THEN files
                ELSE WriteAt(files, sessions[s].f, sessions[s].pos,
                             JsonDump(sessions[s].cache)[sessions[s].pos + 1])
    /\ sessions' = [sessions EXCEPT ![s].pos = @ + 1]
    /\ UNCHANGED OneProcessor

\* the with block is left: f is closed
SessionClose(s) ==
    /\ sessions[s].pc = "write"
    /\ sessions[s].pos >= Len(JsonDump(sessions[s].cache))
    /\ sessions' = [sessions EXCEPT ![s].pc = "replace", ![s].f = "closed"]
    /\ UNCHANGED <<files, OneProcessor>>

\* os.replace(temp_file, self.cache_file)
SessionReplace(s) ==
    /\ sessions[s].pc = "replace"
    /\ files[TempPath].exists
    /\ files' = Replace(files)
    /\ sessions' = [Moved(sessions) EXCEPT ![s].pc = "idle"]
    /\ UNCHANGED OneProcessor

\* os.replace finds no temp file (the other session has moved it): it
\* raises, _save_cache re-raises and the caller's except swallows it
SessionReplaceRaises(s) ==
    /\ sessions[s].pc = "replace"
    /\ ~files[TempPath].exists
    /\ sessions' = [sessions EXCEPT ![s].pc = "idle"]
    /\ UNCHANGED <<files, OneProcessor>>

NextSessions ==
    \/ \E s \in Sessions : SessionStore(s)
    \/ \E s \in Sessions : SessionOpen(s)
    \/ \E s \in Sessions : SessionWrite(s)
    \/ \E s \in Sessions : SessionClose(s)
    \/ \E s \in Sessions : SessionReplace(s)
    \/ \E s \in Sessions : SessionReplaceRaises(s)

SpecSessions == InitSessions /\ [][NextSessions]_vars

(***************************************************************************)
(* The claims.                                                             *)
(***************************************************************************)
Delay(path) == IF path = "single" THEN SingleDelay ELSE RateLimitDelay

AllRequestsFailed == \A i \in 1..Len(last.reqs) : ~RequestOk(last.reqs[i].out)

BuildSucceeded == last.op = "build_index" /\ ~last.raised

\* C1: after a successful build_index(faqs) every position p of the index
\* holds the embedding of the combined question+answer text of the entry at
\* position p of faqs.
C1_IndexHoldsEntryAtItsPosition ==
    BuildSucceeded =>
        \A p \in 1..Len(index.vecs) :
            /\ p <= Len(last.corpus.rows)
            /\ index.vecs[p] = Provider(CombinedText(last.corpus.rows[p]))

\* C2: find_similar_faqs never returns a match at a distance above the
\* threshold, nor a match read from an entry whose answer is empty or absent.
C2_MatchesWithinThresholdAndAnswered ==
    last.op = "find_similar_faqs" =>
        \A i \in 1..Len(last.matches) :
            LET m == last.matches[i]
                faq == faq_data.rows[m.row]
            IN  /\ m.distance <= last.threshold
                /\ faq.answer # <<>>
                /\ ~faq.na
                /\ m.matched_faq = faq.question
                /\ m.answer = Strip(faq.answer)

\* C2, its case: a call returned a match although a nearer or further
\* neighbour was dropped: the corpus has an unanswered entry, the index two
\* vectors, two neighbours were asked for and one match came back.
C2_Witness ==
    /\ last.op = "find_similar_faqs"
    /\ last.k = 2
    /\ Len(index.vecs) = 2
    /\ Len(faq_data.rows) = 2
    /\ \E i \in 1..2 : faq_data.rows[i].answer = <<>>
    /\ Len(last.results) = 1
    /\ Len(last.matches) = 1

\* C3: the returned sequence holds at most one match per sub-question text,
\* that match is the nearest of the surviving candidates of its sub-question
\* (every sub-question with a candidate has one), and the sequence ascends
\* by distance.
C3_OneBestMatchPerSubQuestion ==
    last.op = "find_similar_faqs" /\ ~last.raised =>
        /\ \A i, j \in 1..Len(last.matches) :
              i < j => /\ last.matches[i].question # last.matches[j].question
                       /\ last.matches[i].distance <= last.matches[j].distance
        /\ \A i \in 1..Len(last.matches) :
              /\ \E n \in 1..Len(last.results) : last.results[n] = last.matches[i]
              /\ \A n \in 1..Len(last.results) :
                    last.results[n].question = last.matches[i].question
                        => last.matches[i].distance <= last.results[n].distance
        /\ \A n \in 1..Len(last.results) :
              \E i \in 1..Len(last.matches) :
                  last.matches[i].question = last.results[n].question

\* C3, its case: the splitter gave the same sub-question twice, each with two
\* surviving candidates at different distances, and one match came back.
C3_Witness ==
    /\ last.op = "find_similar_faqs"
    /\ last.text = <<"w", QMark, "w", QMark>>
    /\ Len(last.results) = 4
    /\ last.results[1].distance < last.results[2].distance
    /\ Len(last.matches) = 1

\* C4: whatever step of a flush the process is interrupted at, the durable
\* cache file is never truncated or unparsable: it holds the complete mapping
\* it held before the flush or the complete new mapping.
C4_DurableFileNeverPartial ==
    /\ files[CachePath].exists => Parsable(files[CachePath].data)
    /\ pc # "idle" =>
          \/ files[CachePath] = flush_pre
          \/ files[CachePath] = [exists |-> TRUE, data |-> JsonDump(embedding_cache)]

\* C4, its case: the process was interrupted while the temp file was partly
\* written, with a durable file of an earlier flush in place.
C4_Witness ==
    /\ pc = "killed"
    /\ files[CachePath].exists
    /\ files[TempPath].exists
    /\ Len(files[TempPath].data) >= 2
    /\ ~Parsable(files[TempPath].data)

\* C5: every entry of the embedding cache maps the key of some text to the
\* vector the provider returns for that text, and a lookup that hits returns
\* the vector stored for the text.
C5_CacheHoldsProviderVectors ==
    /\ \A key \in DOMAIN embedding_cache :
          \E text \in EmbedTexts :
              /\ ~Invalid(text)
              /\ _get_cache_key(text) = key
              /\ embedding_cache[key] = Provider(text)
    /\ last.op = "embed_text" /\ last.hit =>
          last.ret = embedding_cache[_get_cache_key(last.text)]

\* C5, its case: a batch of a cached text followed by an uncached one was
\* sent and its result stored.
C5_Witness ==
    /\ last.op = "embed_batch"
    /\ last.batch = << <<"w", QMark>>, <<"v", QMark>> >>
    /\ last.hit
    /\ Len(last.reqs) = 1
    /\ RequestOk(last.reqs[1].out)
    /\ DOMAIN embedding_cache = {_get_cache_key(<<"w", QMark>>),
                                 _get_cache_key(<<"v", QMark>>)}

\* C6: embed_text on a cached text returns the cached vector without a
\* request; on a valid uncached text it issues exactly one request and, when
\* the request succeeds, stores the vector and returns that same vector.
C6_EmbedTextReturnsStoredVector ==
    last.op = "embed_text" /\ ~Invalid(last.text) =>
        LET key == _get_cache_key(last.text) IN
        /\ last.hit => last.reqs = <<>> /\ last.ret = embedding_cache[key]
        /\ ~last.hit =>
              /\ Len(last.reqs) = 1
              /\ RequestOk(last.reqs[1].out) =>
                    /\ key \in DOMAIN embedding_cache
                    /\ embedding_cache[key] = Provider(last.text)
                    /\ last.ret = embedding_cache[key]

\* C7: every external request follows the request before it by at least the
\* minimum delay of its own path, also when the earlier request failed.
C7_RequestsKeepMinimumSpacing ==
    \A i \in 1..Len(last.reqs) : last.reqs[i].gap >= Delay(last.reqs[i].path)

\* C8: an operation in which a cache flush failed ends in an exception.
C8_FailedFlushRaises == last.save_failed => last.raised

\* C9: with a built index find_similar_faqs raises nothing; it returns an
\* empty sequence when every request failed and no sub-question was cached,
\* when no sub-question has a match within the threshold, and for "".
C9_FindReturnsEmptyWithoutError ==
    last.op = "find_similar_faqs" /\ index.built =>
        /\ ~last.raised
        /\ AllRequestsFailed /\ ~last.hit => last.matches = <<>>
        /\ last.results = <<>> => last.matches = <<>>
        /\ last.text = <<>> => last.matches = <<>>

\* C9, its case: with a built index, both sub-questions of a query were sent
\* to the provider and both requests failed.
C9_Witness ==
    /\ last.op = "find_similar_faqs"
    /\ index.built
    /\ Len(last.reqs) = 2
    /\ AllRequestsFailed
    /\ ~last.raised
    /\ last.matches = <<>>

NoEmbeddingObtained == last.ncached = 0 /\ AllRequestsFailed

\* C10: build_index ends in an error, and the index stays the one it was,
\* when the corpus is empty or absent and when nothing was cached and every
\* chunk's request failed.
C10_BuildRejectsEmptyAndUnembeddable ==
    /\ [](last.op = "build_index"
            /\ (NoFaqs(last.corpus) \/ NoEmbeddingObtained) => last.raised)
    /\ [][last'.op = "build_index" /\ last'.raised /\ ncalls' = ncalls + 1
            => index' = index]_vars

\* C10, its case: an index was built, then a build of a corpus of two
\* uncached entries in two chunks had both requests fail.
C10_Witness ==
    /\ last.op = "build_index"
    /\ last.raised
    /\ index.built
    /\ Len(last.corpus.rows) = 2
    /\ Len(last.reqs) = 2
    /\ NoEmbeddingObtained

\* C11: a find_similar_faqs call on a processor that holds no index ends in
\* an error, whatever the query and whatever became of its requests.
C11_FindWithoutIndexRaises ==
    last.op = "find_similar_faqs" /\ ~index.built => last.raised

\* C12: a find_similar_faqs call on a processor with a built index leaves the
\* embedding cache with the entries it had: queries add nothing to it.
C12_QueriesNeverGrowCache ==
    [][index.built /\ last'.op = "find_similar_faqs" /\ ncalls' = ncalls + 1
        => Cardinality(DOMAIN embedding_cache')
              <= Cardinality(DOMAIN embedding_cache)]_vars

\* C13: with two sessions flushing to the same cache path, the durable file,
\* whenever it exists, is the complete dump of a mapping one of the sessions
\* held: never a partial text and never a mix of the two writers' texts.
C13_DurableFileIsOneWritersMapping ==
    files[CachePath].exists =>
        /\ Parsable(files[CachePath].data)
        /\ LET m == JsonLoad(files[CachePath].data)
           IN  /\ files[CachePath].data = JsonDump(m)
               /\ \E s \in Sessions :
                    /\ DOMAIN m \subseteq DOMAIN sessions[s].cache
                    /\ \A k \in DOMAIN m : m[k] = sessions[s].cache[k]

\* the cache key of the entry at position p of the last corpus
RowKey(p) == _get_cache_key(CombinedText(last.corpus.rows[p]))

\* nothing of the last corpus was cached when the build began, and its
\* entries have pairwise different texts: chunk c is then the entries
\* (c - 1) * batch_size + 1 .. c * batch_size, and it takes one request
FreshCorpus ==
    /\ last.ncached = 0
    /\ \A p, q \in 1..Len(last.corpus.rows) : p # q => RowKey(p) # RowKey(q)

\* how many chunks range(0, n, batch_size) gives
ChunkCount(n, batch_size) == (n + batch_size - 1) \div batch_size

\* the chunk the entry at position p falls in
ChunkOf(p, batch_size) == ((p - 1) \div batch_size) + 1

\* C14: in build_index a failed request for a chunk raises nothing and stops
\* nothing: every chunk is attempted, the vectors of each chunk whose request
\* succeeded are in the cache and in the index, and the build succeeds, on
\* vectors of the corpus only, as soon as some entry has a vector.
C14_FailedChunkAbortsNothing ==
    last.op = "build_index" /\ ~NoFaqs(last.corpus) =>
        LET rows == last.corpus.rows
            have == {p \in 1..Len(rows) : RowKey(p) \in DOMAIN embedding_cache}
        IN  /\ have # {} =>
                /\ ~last.raised
                /\ index.built
                /\ index.vecs # <<>>
                /\ \A j \in 1..Len(index.vecs) :
                     \E p \in have : index.vecs[j] = embedding_cache[RowKey(p)]
            /\ FreshCorpus =>
                /\ Len(last.reqs) = ChunkCount(Len(rows), last.batch_size)
                /\ \A p \in 1..Len(rows) :
                     RequestOk(last.reqs[ChunkOf(p, last.batch_size)].out) =>
                        /\ p \in have
                        /\ \E j \in 1..Len(index.vecs) :
                             index.vecs[j] = embedding_cache[RowKey(p)]

\* C14, its case: a corpus of two uncached entries built in chunks of one,
\* the first chunk's request failed and the second succeeded.
C14_Witness ==
    /\ last.op = "build_index"
    /\ FreshCorpus
    /\ Len(last.corpus.rows) = 2
    /\ last.batch_size = 1
    /\ Len(last.reqs) = 2
    /\ ~RequestOk(last.reqs[1].out)
    /\ RequestOk(last.reqs[2].out)
    /\ ~last.raised
    /\ Len(index.vecs) = 1

\* C15: a build_index call that fails leaves the index and faq_data as they
\* were before the call, so that an index is only ever paired with the
\* corpus it was built from.
C15_FailedBuildKeepsIndexAndCorpus ==
    [][index.built /\ last'.op = "build_index" /\ last'.raised
            /\ ncalls' = ncalls + 1
        => index' = index /\ faq_data' = faq_data]_vars

====
